---- MODULE Spec2Model ----
(***************************************************************************)
(* VaultX: the auth store (session state machine), the secure local store  *)
(* and the shard storage service, as state machines.                       *)
(***************************************************************************)
EXTENDS Integers, Sequences, FiniteSets, TLC

\* ---------------------------------------------------------------- bounds
\* values the random generator hands out before the model stops generating:
\* enough for the salts of two PIN setups
MaxRandom == 6
\* longest document collection the model lets addDocument build
MaxDocs == 1
\* storage and provider calls that may throw along one run
MaxFaults == 1
\* number of documents the storage service is asked to upload
MaxUploads == 1
\* failed attempts the unlock screen counts before the model stops failing
MaxAttempts == 5
\* PINs typed into the PIN setup screen along one run
MaxTyped == 5

\* addDocument and removeDocument calls that may be in flight together
MaxCalls == 2

\* shards per document (settings screen: "3 per document")
NumShards == 3

\* the PINs that are typed: two to set up and a third that is never set up
Pins == {"482913", "001122", "999999"}
\* the PINs setupPins is called with: a pair that differs, a pair that does not
PinPairs == {<<"482913", "001122">>, <<"482913", "482913">>}
Users == {"u1"}
\* the accounts that use the device after its first user has signed out
OtherUsers == {"u2"}
DocIds == {"d1"}
\* the Document Records the store is handed, by their id
VaultDocuments == {[id |-> d] : d \in DocIds}

\* the documents that calls in flight together add and remove
OverlapDocIds == {"d1", "d2"}

\* null of the TypeScript source; a record, so that it compares with records
Null == [null |-> TRUE]

VARIABLES
    appState,       \* AuthStore.appState
    user,           \* AuthStore.user
    secureData,     \* AuthStore.secureData (in-memory Credential Record)
    vaultMetadata,  \* AuthStore.vaultMetadata (in-memory document lists)
    masterKey,      \* AuthStore.masterKey
    isLoading,      \* AuthStore.isLoading
    storedSecure,   \* SecureStore item 'vaultx_secure_data'
    storedMeta,     \* AsyncStorage item 'vaultx_vault_metadata'
    session,        \* the identity provider's current session user
    rng,            \* number of random values generated so far
    faults,         \* number of calls that have thrown so far
    last,           \* the last operation that ran: name, argument, result
    blobs,          \* the blob store: path -> stored, as a set of paths
    up,             \* the running uploadAllShards call
    down,           \* the running downloadDocument call
    env,            \* the envelope the encryption service is applied to
    screen,         \* the mounted screen and its component state
    calls           \* the addDocument and removeDocument calls in flight

storeVars == <<appState, user, secureData, vaultMetadata, masterKey,
               isLoading, storedSecure, storedMeta, session, rng,
               faults>>
storageVars == <<blobs, up, down>>
cryptoVars == <<env>>
screenVars == <<screen, calls>>
vars == <<appState, user, secureData, vaultMetadata, masterKey, isLoading,
          storedSecure, storedMeta, session, rng, faults, last, blobs,
          up, down, env, screen, calls>>

\* ------------------------------------------------------- crypto services
\* pinHash.hashPin: a salted one-way commitment to the PIN
hashPin(pin, salt) == [alg |-> "hashPin", pin |-> pin, salt |-> salt]

\* pinHash.verifyPin: recompute the commitment and compare
verifyPin(pin, salt, hash) == hashPin(pin, salt) = hash

\* keyDerivation.deriveMasterKey: PBKDF2-HMAC-SHA256 of (pin, salt)
deriveMasterKey(pin, salt) == [alg |-> "PBKDF2", pin |-> pin, salt |-> salt]

\* --------------------------------------------------- encryption service
\* documents as the base64 text read from the file; the empty file is one
Plaintexts == {[text |-> ""], [text |-> "JVBERi0x"], [text |-> "iVBORw0K"]}
\* master keys: the keys derived from the PINs under one salt
MasterKeys == {deriveMasterKey(pin, 3) : pin \in {"482913", "001122"}}
\* values generateFEK and generateIV can hand out
FEKs == {[hex |-> "fek1"], [hex |-> "fek2"]}
IVs == {[hex |-> "iv1"], [hex |-> "iv2"]}
\* IVs put in the place of a generated one: ivText differs from it in bits
\* that leave the first block a text, ivBytes in bits that do not
OtherIVs == {[hex |-> "ivText"], [hex |-> "ivBytes"]}

\* CryptoJS.AES.encrypt(data, key, {iv, CBC, Pkcs7}).ciphertext: the bytes
AESEncrypt(data, key, iv) == [data |-> data, key |-> key, iv |-> iv]

\* CryptoJS.AES.decrypt of ciphertext bytes: the data under the key and IV
\* they were made with, other bytes otherwise (CBC: the first block is the
\* data's XORed with the difference of the IVs)
AESDecrypt(ciphertext, key, iv) ==
    IF ciphertext.key = key /\ ciphertext.iv = iv
    THEN ciphertext.data
    ELSE [garbled |-> ciphertext, iv |-> iv]

\* decrypted.toString(CryptoJS.enc.Utf8): the text, or 'Malformed UTF-8
\* data' thrown, which decryptAES256 catches and turns into null
Utf8String(decrypted) ==
    IF "garbled" \in DOMAIN decrypted /\ decrypted.iv = [hex |-> "ivBytes"]
    THEN Null
    ELSE decrypted

\* CryptoJS.HmacSHA256(message, key)
HmacSHA256(message, key) == [mac |-> message, key |-> key]

\* the text "base64|hmac": encryptedBase64 is the base64 text, which is the
\* bytes it encodes and the way its last characters are written (slack: bits
\* and characters the decoder does not read); storedHmac is the text after
\* the first '|'; more counts the '|'-separated parts that follow
encryptAES256(data, keyHex, ivHex) ==
    LET ciphertext == AESEncrypt(data, keyHex, ivHex)
    IN [encryptedBase64 |-> [bytes |-> ciphertext, slack |-> 0],
        storedHmac |-> HmacSHA256(ciphertext, keyHex),
        more |-> 0]

\* CryptoJS.enc.Base64.parse: the bytes, whatever the slack
Base64Parse(base64) == base64.bytes

\* decryptAES256: split('|') keeps the first two parts, the HMAC of the
\* parsed bytes is compared with the second, and only then the bytes are
\* decrypted
decryptAES256(encryptedWithHmac, keyHex, ivHex) ==
    LET ciphertext == Base64Parse(encryptedWithHmac.encryptedBase64)
    IN IF HmacSHA256(ciphertext, keyHex) # encryptedWithHmac.storedHmac
       THEN Null
       ELSE Utf8String(AESDecrypt(ciphertext, keyHex, ivHex))

\* !value of JavaScript for the values decryptAES256 returns
Falsy(value) == value = Null \/ value = [text |-> ""]

\* encryptDocument with the data sealed under the IV of the FEK
encryptDocument_SwappedIV(documentBase64, key, fek, dataIV, fekIV) ==
    [encryptedData |-> encryptAES256(documentBase64, fek, fekIV),
     encryptedFEK |-> encryptAES256(fek, key, fekIV),
     fekIV |-> fekIV,
     dataIV |-> dataIV]

\* encryptDocument, fek, dataIV and fekIV being the values it generates
encryptDocument(documentBase64, key, fek, dataIV, fekIV) ==
    [encryptedData |-> encryptAES256(documentBase64, fek, dataIV),
     encryptedFEK |-> encryptAES256(fek, key, fekIV),
     fekIV |-> fekIV,
     dataIV |-> dataIV]

\* decryptDocument going on to the body with whatever the FEK opened to
decryptDocumentRun_BodyAnyway(encryptedData, encryptedFEK, fekIV, dataIV, key) ==
    LET fek == decryptAES256(encryptedFEK, key, fekIV)
    IN [out |-> decryptAES256(encryptedData, fek, dataIV),
        calls |-> <<"encryptedFEK", "encryptedData">>]

\* decryptDocument: the value it returns (out) and the texts it has called
\* decryptAES256 on, in order (calls)
decryptDocumentRun(encryptedData, encryptedFEK, fekIV, dataIV, key) ==
    LET fek == decryptAES256(encryptedFEK, key, fekIV)
    IN IF Falsy(fek)
       THEN [out |-> Null, calls |-> <<"encryptedFEK">>]
       ELSE [out |-> decryptAES256(encryptedData, fek, dataIV),
             calls |-> <<"encryptedFEK", "encryptedData">>]

decryptDocument(encryptedData, encryptedFEK, fekIV, dataIV, key) ==
    decryptDocumentRun(encryptedData, encryptedFEK, fekIV, dataIV, key).out

\* what downloadDocument returns for the value decryptDocument returned: a
\* falsy value is a failure with no data
Reported(decryptedData) ==
    IF Falsy(decryptedData)
    THEN [result |-> "failure", data |-> Null]
    ELSE [result |-> "success", data |-> decryptedData]

\* the ways a sealed text can be altered: other ciphertext bytes, another
\* writing of the same bytes, another tag, a part appended after the tag
Alterations == {"ciphertext", "encoding", "tag", "appended"}

Altered(sealed, how) ==
    IF how = "ciphertext"
    THEN [sealed EXCEPT !.encryptedBase64.bytes = [flipped |-> @]]
    ELSE IF how = "encoding"
    THEN [sealed EXCEPT !.encryptedBase64.slack = 1]
    ELSE IF how = "tag"
    THEN [sealed EXCEPT !.storedHmac = [flipped |-> @]]
    ELSE [sealed EXCEPT !.more = 1]

\* ------------------------------------------------------------ the store
EmptyMetadata == [documents |-> <<>>, decoyDocuments |-> <<>>]

Documents(meta) == IF meta = Null THEN <<>> ELSE meta.documents
DecoyDocuments(meta) == IF meta = Null THEN <<>> ELSE meta.decoyDocuments

\* the record kept of an operation: its name, argument and return value, the
\* crypto calls it made and the appState it was called in
Op(name, arg, ret, crypto) ==
    [op |-> name, arg |-> arg, ret |-> ret, crypto |-> crypto,
     from |-> appState]

\* appState chosen by initialize and signIn from the loaded record
LoadedAppState(sd) ==
    IF sd # Null /\ sd.setupComplete THEN "VAULT_LOCKED" ELSE "AUTHENTICATED"

\* a call to a collaborator either returns (TRUE) or throws (FALSE); Thrown
\* counts the calls of a handler that threw
Thrown(outcomes) == Cardinality({i \in DOMAIN outcomes : ~outcomes[i]})
Outcomes(n) == {o \in [1..n -> BOOLEAN] : faults + Thrown(o) <= MaxFaults}

\* loadSecureData / loadVaultMetadata: the stored item, or null when the
\* read throws
loadSecureData(read) == IF read THEN storedSecure ELSE Null
loadVaultMetadata(read) == IF read THEN storedMeta ELSE Null

MetadataOrEmpty(m) == IF m = Null THEN EmptyMetadata ELSE m

Init ==
    /\ appState = "UNAUTHENTICATED"
    /\ user = Null
    /\ secureData = Null
    /\ vaultMetadata = Null
    /\ masterKey = Null
    /\ isLoading = TRUE
    /\ storedSecure = Null
    /\ storedMeta = Null
    /\ session = Null
    /\ rng = 0
    /\ faults = 0
    /\ last = Op("init", 0, "void", <<>>)
    /\ blobs = {}
    /\ up = Null
    /\ down = Null
    /\ env = Null
    /\ screen = Null
    /\ calls = <<>>

initialize ==
    /\ \E o \in Outcomes(3) :
        /\ IF ~o[1]
           THEN /\ o[2] /\ o[3]
                /\ appState' = "UNAUTHENTICATED"
                /\ UNCHANGED <<user, secureData, vaultMetadata>>
           ELSE IF session # Null
           THEN LET sd == loadSecureData(o[2])
                    vm == loadVaultMetadata(o[3])
                IN /\ user' = session
                   /\ secureData' = sd
                   /\ vaultMetadata' = MetadataOrEmpty(vm)
                   /\ appState' = LoadedAppState(sd)
           ELSE /\ o[2] /\ o[3]
                /\ appState' = "UNAUTHENTICATED"
                /\ UNCHANGED <<user, secureData, vaultMetadata>>
        /\ faults' = faults + Thrown(o)
    /\ isLoading' = FALSE
    /\ last' = Op("initialize", 0, "void", <<>>)
    /\ UNCHANGED <<masterKey, storedSecure, storedMeta, session, rng>>
    /\ UNCHANGED storageVars
    /\ UNCHANGED cryptoVars
    /\ UNCHANGED screenVars

\* signIn with the credentials of the account u
signInAs(u) ==
    /\ \E ok \in BOOLEAN, o \in Outcomes(2) :
        /\ IF ok
           THEN LET sd == loadSecureData(o[1])
                    vm == loadVaultMetadata(o[2])
                IN /\ session' = [id |-> u]
                   /\ user' = [id |-> u]
                   /\ secureData' = sd
                   /\ vaultMetadata' = MetadataOrEmpty(vm)
                   /\ appState' = LoadedAppState(sd)
                   /\ last' = Op("signIn", 0, "true", <<>>)
           ELSE /\ o[1] /\ o[2]
                /\ last' = Op("signIn", 0, "false", <<>>)
                /\ UNCHANGED <<session, user, secureData, vaultMetadata, appState>>
        /\ faults' = faults + Thrown(o)
    /\ isLoading' = FALSE
    /\ UNCHANGED <<masterKey, storedSecure, storedMeta, rng>>
    /\ UNCHANGED storageVars
    /\ UNCHANGED cryptoVars
    /\ UNCHANGED screenVars

signIn == \E u \in Users : signInAs(u)

\* signUp with the credentials of the account u
signUpAs(u) ==
    /\ \E ok \in BOOLEAN :
        IF ok
        THEN /\ session' = [id |-> u]
             /\ user' = [id |-> u]
             /\ appState' = "AUTHENTICATED"
             /\ vaultMetadata' = EmptyMetadata
             /\ last' = Op("signUp", 0, "true", <<>>)
        ELSE /\ last' = Op("signUp", 0, "false", <<>>)
             /\ UNCHANGED <<session, user, vaultMetadata, appState>>
    /\ isLoading' = FALSE
    /\ UNCHANGED <<secureData, masterKey, storedSecure, storedMeta, rng, faults>>
    /\ UNCHANGED storageVars
    /\ UNCHANGED cryptoVars
    /\ UNCHANGED screenVars

signUp == \E u \in Users : signUpAs(u)

\* the state written by the store's signOut
SignedOut ==
    [user |-> Null, secureData |-> Null, vaultMetadata |-> Null,
     masterKey |-> Null, appState |-> "UNAUTHENTICATED"]

\* signOut that also deletes the persisted Credential Record
signOut_ClearsStore ==
    /\ session' = Null
    /\ user' = SignedOut.user
    /\ secureData' = SignedOut.secureData
    /\ vaultMetadata' = SignedOut.vaultMetadata
    /\ masterKey' = SignedOut.masterKey
    /\ appState' = SignedOut.appState
    /\ isLoading' = FALSE
    /\ storedSecure' = Null
    /\ last' = Op("signOut", 0, "void", <<>>)
    /\ UNCHANGED <<storedMeta, rng, faults>>
    /\ UNCHANGED storageVars
    /\ UNCHANGED cryptoVars
    /\ UNCHANGED screenVars

signOut ==
    /\ session' = Null
    /\ user' = SignedOut.user
    /\ secureData' = SignedOut.secureData
    /\ vaultMetadata' = SignedOut.vaultMetadata
    /\ masterKey' = SignedOut.masterKey
    /\ appState' = SignedOut.appState
    /\ isLoading' = FALSE
    /\ last' = Op("signOut", 0, "void", <<>>)
    /\ UNCHANGED <<storedSecure, storedMeta, rng, faults>>
    /\ UNCHANGED storageVars
    /\ UNCHANGED cryptoVars
    /\ UNCHANGED screenVars

\* saveSecureData: writes the item, or leaves it when the write throws
\* (the error is caught and reported as false)
saveSecureData(data, written) == IF written THEN data ELSE storedSecure

\* saveVaultMetadata: the same for the metadata item
saveVaultMetadata(metadata, written) == IF written THEN metadata ELSE storedMeta

\* a Credential Record that also keeps the key derived from the primary PIN
NewSecureData_StoresKey(primaryPin, duressPin, r, current) ==
    [pinHash |-> hashPin(primaryPin, r + 1),
     pinSalt |-> r + 1,
     duressHash |-> hashPin(duressPin, r + 2),
     duressSalt |-> r + 2,
     masterKeySalt |-> r + 3,
     masterKey |-> deriveMasterKey(primaryPin, r + 3),
     biometricEnabled |-> IF current = Null THEN FALSE ELSE current.biometricEnabled,
     setupComplete |-> FALSE]

\* the Credential Record built by setupPins from fresh salts r+1, r+2, r+3
NewSecureData(primaryPin, duressPin, r, current) ==
    [pinHash |-> hashPin(primaryPin, r + 1),
     pinSalt |-> r + 1,
     duressHash |-> hashPin(duressPin, r + 2),
     duressSalt |-> r + 2,
     masterKeySalt |-> r + 3,
     biometricEnabled |-> IF current = Null THEN FALSE ELSE current.biometricEnabled,
     setupComplete |-> FALSE]

setupPins ==
    /\ \E pins \in PinPairs, o \in Outcomes(2) :
        /\ IF ~o[1]
           THEN /\ o[2]
                /\ last' = Op("setupPins", 0, "false", <<>>)
                /\ UNCHANGED <<secureData, storedSecure, rng>>
           ELSE /\ rng + 3 <= MaxRandom
                /\ LET data == NewSecureData(pins[1], pins[2], rng, secureData)
                   IN /\ storedSecure' = saveSecureData(data, o[2])
                      /\ secureData' = data
                /\ rng' = rng + 3
                /\ last' = Op("setupPins", 0, "true", <<"hashPin", "hashPin">>)
        /\ faults' = faults + Thrown(o)
    /\ UNCHANGED <<appState, user, vaultMetadata, masterKey, isLoading,
                   storedMeta, session>>
    /\ UNCHANGED storageVars
    /\ UNCHANGED cryptoVars
    /\ UNCHANGED screenVars

enableBiometrics ==
    /\ \E enabled \in BOOLEAN, o \in Outcomes(1) :
        /\ IF secureData = Null
           THEN /\ o[1]
                /\ last' = Op("enableBiometrics", 0, "false", <<>>)
                /\ UNCHANGED <<secureData, storedSecure>>
           ELSE LET newData == [secureData EXCEPT !.biometricEnabled = enabled]
                IN /\ storedSecure' = saveSecureData(newData, o[1])
                   /\ secureData' = newData
                   /\ last' = Op("enableBiometrics", 0, "true", <<>>)
        /\ faults' = faults + Thrown(o)
    /\ UNCHANGED <<appState, user, vaultMetadata, masterKey, isLoading,
                   storedMeta, session, rng>>
    /\ UNCHANGED storageVars
    /\ UNCHANGED cryptoVars
    /\ UNCHANGED screenVars

completeSetup ==
    /\ \E o \in Outcomes(1) :
        /\ IF secureData = Null
           THEN /\ o[1]
                /\ last' = Op("completeSetup", 0, "false", <<>>)
                /\ UNCHANGED <<secureData, storedSecure, appState>>
           ELSE LET newData == [secureData EXCEPT !.setupComplete = TRUE]
                IN /\ storedSecure' = saveSecureData(newData, o[1])
                   /\ secureData' = newData
                   /\ appState' = "VAULT_LOCKED"
                   /\ last' = Op("completeSetup", 0, "true", <<>>)
        /\ faults' = faults + Thrown(o)
    /\ UNCHANGED <<user, vaultMetadata, masterKey, isLoading,
                   storedMeta, session, rng>>
    /\ UNCHANGED storageVars
    /\ UNCHANGED cryptoVars
    /\ UNCHANGED screenVars

\* unlockVault with the success branch forgetting to keep the derived key
UnlockOutcome_NoKey(pin, sd, curState, curKey) ==
    IF sd = Null
    THEN [ret |-> "failed", appState |-> curState, masterKey |-> curKey,
          crypto |-> <<>>]
    ELSE IF verifyPin(pin, sd.duressSalt, sd.duressHash)
    THEN [ret |-> "duress", appState |-> "DURESS_MODE", masterKey |-> Null,
          crypto |-> <<"verifyPin">>]
    ELSE IF verifyPin(pin, sd.pinSalt, sd.pinHash)
    THEN [ret |-> "success", appState |-> "VAULT_UNLOCKED", masterKey |-> Null,
          crypto |-> <<"verifyPin", "verifyPin", "deriveMasterKey">>]
    ELSE [ret |-> "failed", appState |-> curState, masterKey |-> curKey,
          crypto |-> <<"verifyPin", "verifyPin">>]

\* unlockVault deriving the key from the salt of the PIN commitment
UnlockOutcome_WrongSalt(pin, sd, curState, curKey) ==
    IF sd = Null
    THEN [ret |-> "failed", appState |-> curState, masterKey |-> curKey,
          crypto |-> <<>>]
    ELSE IF verifyPin(pin, sd.duressSalt, sd.duressHash)
    THEN [ret |-> "duress", appState |-> "DURESS_MODE", masterKey |-> Null,
          crypto |-> <<"verifyPin">>]
    ELSE IF verifyPin(pin, sd.pinSalt, sd.pinHash)
    THEN [ret |-> "success", appState |-> "VAULT_UNLOCKED",
          masterKey |-> deriveMasterKey(pin, sd.pinSalt),
          crypto |-> <<"verifyPin", "verifyPin", "deriveMasterKey">>]
    ELSE [ret |-> "failed", appState |-> curState, masterKey |-> curKey,
          crypto |-> <<"verifyPin", "verifyPin">>]

\* unlockVault with the primary check placed before the duress check
UnlockOutcome_PrimaryFirst(pin, sd, curState, curKey) ==
    IF sd = Null
    THEN [ret |-> "failed", appState |-> curState, masterKey |-> curKey,
          crypto |-> <<>>]
    ELSE IF verifyPin(pin, sd.pinSalt, sd.pinHash)
    THEN [ret |-> "success", appState |-> "VAULT_UNLOCKED",
          masterKey |-> deriveMasterKey(pin, sd.masterKeySalt),
          crypto |-> <<"verifyPin", "deriveMasterKey">>]
    ELSE IF verifyPin(pin, sd.duressSalt, sd.duressHash)
    THEN [ret |-> "duress", appState |-> "DURESS_MODE", masterKey |-> Null,
          crypto |-> <<"verifyPin", "verifyPin">>]
    ELSE [ret |-> "failed", appState |-> curState, masterKey |-> curKey,
          crypto |-> <<"verifyPin", "verifyPin">>]

\* unlockVault locking the vault on a failed attempt
UnlockOutcome_LockOnFail(pin, sd, curState, curKey) ==
    IF sd = Null
    THEN [ret |-> "failed", appState |-> curState, masterKey |-> curKey,
          crypto |-> <<>>]
    ELSE IF verifyPin(pin, sd.duressSalt, sd.duressHash)
    THEN [ret |-> "duress", appState |-> "DURESS_MODE", masterKey |-> Null,
          crypto |-> <<"verifyPin">>]
    ELSE IF verifyPin(pin, sd.pinSalt, sd.pinHash)
    THEN [ret |-> "success", appState |-> "VAULT_UNLOCKED",
          masterKey |-> deriveMasterKey(pin, sd.masterKeySalt),
          crypto |-> <<"verifyPin", "verifyPin", "deriveMasterKey">>]
    ELSE [ret |-> "failed", appState |-> "VAULT_LOCKED", masterKey |-> Null,
          crypto |-> <<"verifyPin", "verifyPin">>]

\* what unlockVault returns and writes for a PIN, given the loaded record:
\* ret, the new appState and masterKey, and the crypto calls it made
UnlockOutcome(pin, sd, curState, curKey) ==
    IF sd = Null
    THEN [ret |-> "failed", appState |-> curState, masterKey |-> curKey,
          crypto |-> <<>>]
    ELSE IF verifyPin(pin, sd.duressSalt, sd.duressHash)
    THEN [ret |-> "duress", appState |-> "DURESS_MODE", masterKey |-> Null,
          crypto |-> <<"verifyPin">>]
    ELSE IF verifyPin(pin, sd.pinSalt, sd.pinHash)
    THEN [ret |-> "success", appState |-> "VAULT_UNLOCKED",
          masterKey |-> deriveMasterKey(pin, sd.masterKeySalt),
          crypto |-> <<"verifyPin", "verifyPin", "deriveMasterKey">>]
    ELSE [ret |-> "failed", appState |-> curState, masterKey |-> curKey,
          crypto |-> <<"verifyPin", "verifyPin">>]

unlockVault ==
    /\ \E pin \in Pins :
        LET r == UnlockOutcome(pin, secureData, appState, masterKey)
        IN /\ appState' = r.appState
           /\ masterKey' = r.masterKey
           /\ last' = Op("unlockVault", pin, r.ret, r.crypto)
    /\ UNCHANGED <<user, secureData, vaultMetadata, isLoading,
                   storedSecure, storedMeta, session, rng, faults>>
    /\ UNCHANGED storageVars
    /\ UNCHANGED cryptoVars
    /\ UNCHANGED screenVars

\* lockVault changing the state but keeping the key
Locked_KeepsKey == [appState |-> "VAULT_LOCKED", masterKey |-> masterKey]

\* the state written by lockVault
Locked == [appState |-> "VAULT_LOCKED", masterKey |-> Null]

lockVault ==
    /\ appState' = Locked.appState
    /\ masterKey' = Locked.masterKey
    /\ last' = Op("lockVault", 0, "void", <<>>)
    /\ UNCHANGED <<user, secureData, vaultMetadata, isLoading,
                   storedSecure, storedMeta, session, rng, faults>>
    /\ UNCHANGED storageVars
    /\ UNCHANGED cryptoVars
    /\ UNCHANGED screenVars

\* documents.filter(d => d.id !== docId)
RECURSIVE FilterOut(_, _)
FilterOut(docs, docId) ==
    IF docs = <<>> THEN <<>>
    ELSE IF Head(docs).id = docId THEN FilterOut(Tail(docs), docId)
    ELSE <<Head(docs)>> \o FilterOut(Tail(docs), docId)

\* addDocument that always writes to the real collection
AddedMetadata_AlwaysReal(meta, state, doc) ==
    [meta EXCEPT !.documents = Append(meta.documents, doc)]

\* the metadata addDocument builds, routed by the live appState
AddedMetadata(meta, state, doc) ==
    IF state = "DURESS_MODE"
    THEN [meta EXCEPT !.decoyDocuments = Append(meta.decoyDocuments, doc)]
    ELSE [meta EXCEPT !.documents = Append(meta.documents, doc)]

\* the metadata removeDocument builds, routed by the live appState
RemovedMetadata(meta, state, docId) ==
    IF state = "DURESS_MODE"
    THEN [meta EXCEPT !.decoyDocuments = FilterOut(meta.decoyDocuments, docId)]
    ELSE [meta EXCEPT !.documents = FilterOut(meta.documents, docId)]

\* getDocuments: the collection shown for the live appState
getDocuments(meta, state) ==
    IF meta = Null THEN <<>>
    ELSE IF state = "DURESS_MODE" THEN meta.decoyDocuments
    ELSE meta.documents

addDocument ==
    /\ \E doc \in VaultDocuments, o \in Outcomes(1) :
        /\ Len(getDocuments(vaultMetadata, appState)) < MaxDocs
        /\ IF vaultMetadata = Null
           THEN /\ o[1]
                /\ UNCHANGED <<vaultMetadata, storedMeta>>
           ELSE LET newMetadata == AddedMetadata(vaultMetadata, appState, doc)
                IN /\ storedMeta' = saveVaultMetadata(newMetadata, o[1])
                   /\ vaultMetadata' = newMetadata
        /\ faults' = faults + Thrown(o)
        /\ last' = Op("addDocument", doc, "void", <<>>)
    /\ UNCHANGED <<appState, user, secureData, masterKey, isLoading,
                   storedSecure, session, rng>>
    /\ UNCHANGED storageVars
    /\ UNCHANGED cryptoVars
    /\ UNCHANGED screenVars

removeDocument ==
    /\ \E docId \in DocIds, o \in Outcomes(1) :
        /\ IF vaultMetadata = Null
           THEN /\ o[1]
                /\ UNCHANGED <<vaultMetadata, storedMeta>>
           ELSE LET newMetadata == RemovedMetadata(vaultMetadata, appState, docId)
                IN /\ storedMeta' = saveVaultMetadata(newMetadata, o[1])
                   /\ vaultMetadata' = newMetadata
        /\ faults' = faults + Thrown(o)
        /\ last' = Op("removeDocument", docId, "void", <<>>)
    /\ UNCHANGED <<appState, user, secureData, masterKey, isLoading,
                   storedSecure, session, rng>>
    /\ UNCHANGED storageVars
    /\ UNCHANGED cryptoVars
    /\ UNCHANGED screenVars

\* ---------------------------------------------------------- the screens
\* clearSecureData / clearVaultMetadata: delete the item, or leave it when
\* the delete throws
clearSecureData(deleted) == IF deleted THEN Null ELSE storedSecure
clearVaultMetadata(deleted) == IF deleted THEN Null ELSE storedMeta

\* the settings screen is pushed from the vault home and the decoy screen
OnSettingsScreen == appState \in {"VAULT_UNLOCKED", "DURESS_MODE"}

\* SettingsScreen.handleDeleteAccount, confirmed twice
handleDeleteAccount ==
    /\ OnSettingsScreen
    /\ \E o \in Outcomes(2) :
        /\ storedSecure' = clearSecureData(o[1])
        /\ storedMeta' = clearVaultMetadata(o[2])
        /\ faults' = faults + Thrown(o)
    /\ session' = Null
    /\ user' = SignedOut.user
    /\ secureData' = SignedOut.secureData
    /\ vaultMetadata' = SignedOut.vaultMetadata
    /\ masterKey' = SignedOut.masterKey
    /\ appState' = SignedOut.appState
    /\ isLoading' = FALSE
    /\ last' = Op("handleDeleteAccount", 0, "void", <<>>)
    /\ UNCHANGED rng
    /\ UNCHANGED storageVars
    /\ UNCHANGED cryptoVars
    /\ UNCHANGED screenVars

\* DecoyVaultScreen.handleDeleteDocument: shows a spinner and an alert, and
\* calls nothing of the store
decoyDeleteDocument ==
    /\ appState = "DURESS_MODE"
    /\ \E doc \in DocIds :
        /\ \E i \in 1..Len(getDocuments(vaultMetadata, appState)) :
               getDocuments(vaultMetadata, appState)[i].id = doc
        /\ last' = Op("decoyDeleteDocument", doc, "void", <<>>)
    /\ UNCHANGED storeVars
    /\ UNCHANGED storageVars
    /\ UNCHANGED cryptoVars
    /\ UNCHANGED screenVars

Next ==
    \/ initialize
    \/ signIn
    \/ signUp
    \/ signOut
    \/ setupPins
    \/ enableBiometrics
    \/ completeSetup
    \/ unlockVault
    \/ lockVault
    \/ addDocument
    \/ removeDocument
    \/ handleDeleteAccount
    \/ decoyDeleteDocument

Spec == Init /\ [][Next]_vars

\* ----------------------------------------------------- the blob storage
\* the base64 content of the n-th file picked for upload; the second file
\* is empty
Content(n) == IF n = 2 THEN [text |-> ""] ELSE [text |-> "JVBERi0x"]

\* the n-th value of a kind the random generator hands out
Fresh(kind, n) == [hex |-> <<kind, n>>]

\* JSON.stringify({data, dataIV}): the text, as NumShards pieces in a row
encryptedPayload(enc) ==
    LET payload == [data |-> enc.encryptedData, dataIV |-> enc.dataIV]
    IN [k \in 1..NumShards |-> [of |-> payload, piece |-> k]]

\* JSON.parse: the object, when the text is the pieces of one stringified
\* object in their order; a SyntaxError (Null) otherwise
JSONParse(text) ==
    IF /\ Len(text) = NumShards
       /\ \A k \in 1..NumShards :
             text[k].piece = k /\ text[k].of = text[1].of
    THEN text[1].of
    ELSE Null

\* splitIntoShards for the n-th uploaded document: piece k of the text goes
\* under an identifier of its own with index k - 1; order is the order in
\* which the shards are returned
splitIntoShards(text, n, order) ==
    [j \in 1..NumShards |->
        [id |-> (n - 1) * NumShards + order[j],
         data |-> text[order[j]],
         index |-> order[j] - 1]]

\* the orders tried: as split, rotated, reversed
SplitOrders ==
    {[j \in 1..NumShards |-> j],
     [j \in 1..NumShards |-> (j % NumShards) + 1],
     [j \in 1..NumShards |-> NumShards + 1 - j]}

\* a blob that also carries the index of the shard
Blob_WithIndex(userId, shard) ==
    [path |-> <<userId, shard.id>>, data |-> shard.data, index |-> shard.index]

\* the object the blob store keeps for a shard: path userId/shardId, body
Blob(userId, shard) == [path |-> <<userId, shard.id>>, data |-> shard.data]

\* filePaths of cleanupShards and deleteDocumentShards
FilePaths(shardIds, userId) == {<<userId, shardIds[i]>> : i \in DOMAIN shardIds}

StoredIn(store, path) == \E b \in store : b.path = path
Stored(path) == StoredIn(blobs, path)

\* no call is running: none was made yet, or the last one has returned
Returned(call) == IF call = Null THEN TRUE ELSE call.pc = "done"

\* the upload screen is free: no upload was made, or the last one failed,
\* or its document was handed to the store
UploadHandled(call) ==
    IF call = Null THEN TRUE
    ELSE call.pc = "done" /\ (call.result = "failure" \/ call.added)

\* the record listing the shard identifiers against the upload order
NewDocument_Reversed(n, shardIds, shards, enc) ==
    [id |-> n, name |-> "scan.pdf", mimeType |-> "application/pdf",
     size |-> 8,
     shardIds |-> [i \in 1..Len(shardIds) |-> shardIds[Len(shardIds) + 1 - i]],
     encryptedFEK |-> enc.encryptedFEK,
     iv |-> enc.fekIV,
     shardIndices |-> [i \in 1..Len(shards) |->
                          [id |-> shards[i].id, index |-> i - 1]]]

\* the VaultDocument uploadDocument builds after uploadAllShards succeeded;
\* shardIndices pairs each shard identifier with its position in shards
NewDocument(n, shardIds, shards, enc) ==
    [id |-> n, name |-> "scan.pdf", mimeType |-> "application/pdf",
     size |-> 8,
     shardIds |-> shardIds,
     encryptedFEK |-> enc.encryptedFEK,
     iv |-> enc.fekIV,
     shardIndices |-> [i \in 1..Len(shards) |->
                          [id |-> shards[i].id, index |-> i - 1]]]

\* uploadDocument up to its call of uploadAllShards: the file is read and
\* encrypted under the session's master key, the payload is split
startUpload ==
    /\ masterKey # Null /\ user # Null
    /\ UploadHandled(up)
    /\ LET n == IF up = Null THEN 1 ELSE up.doc + 1
           enc == encryptDocument(Content(n), masterKey, Fresh("fek", n),
                                  Fresh("dataIV", n), Fresh("fekIV", n))
       IN /\ n <= MaxUploads
          /\ \E order \in SplitOrders :
                up' = [doc |-> n, userId |-> user.id, enc |-> enc,
                       shards |-> splitIntoShards(encryptedPayload(enc), n, order),
                       i |-> 0, shardIds |-> <<>>, pc |-> "uploading",
                       result |-> "none", document |-> Null, added |-> FALSE]
    /\ UNCHANGED <<blobs, down, last>>
    /\ UNCHANGED storeVars
    /\ UNCHANGED cryptoVars
    /\ UNCHANGED screenVars

\* one turn of the loop of uploadAllShards: uploadShard(shards[i], userId)
\* stores the blob and the loop goes on (after the last shard uploadAllShards
\* returns success and uploadDocument returns the record), or fails and the
\* loop goes to cleanupShards
uploadShard ==
    /\ up # Null /\ up.pc = "uploading"
    /\ \E stored \in BOOLEAN :
        LET shard == up.shards[up.i + 1]
            shardIds == Append(up.shardIds, shard.id)
        IN IF stored
           THEN /\ blobs' = blobs \cup {Blob(up.userId, shard)}
                /\ up' = [up EXCEPT
                            !.shardIds = shardIds,
                            !.i = @ + 1,
                            !.pc = IF up.i + 1 = Len(up.shards)
                                   THEN "done" ELSE "uploading",
                            !.result = IF up.i + 1 = Len(up.shards)
                                       THEN "success" ELSE "none",
                            !.document = IF up.i + 1 = Len(up.shards)
                                         THEN NewDocument(up.doc, shardIds,
                                                          up.shards, up.enc)
                                         ELSE Null]
           ELSE /\ blobs' = blobs
                /\ up' = [up EXCEPT !.pc = "cleanup"]
    /\ UNCHANGED <<down, last>>
    /\ UNCHANGED storeVars
    /\ UNCHANGED cryptoVars
    /\ UNCHANGED screenVars

\* cleanupShards(shardIds, userId), then the failure return of
\* uploadAllShards: remove() deletes the paths, or returns an error or throws,
\* which cleanupShards ignores
cleanupShards ==
    /\ up # Null /\ up.pc = "cleanup"
    /\ \E removed \in BOOLEAN :
        blobs' = IF removed
                 THEN {b \in blobs : b.path \notin FilePaths(up.shardIds, up.userId)}
                 ELSE blobs
    /\ up' = [up EXCEPT !.pc = "done", !.result = "failure"]
    /\ UNCHANGED <<down, last>>
    /\ UNCHANGED storeVars
    /\ UNCHANGED cryptoVars
    /\ UNCHANGED screenVars

\* the upload screen hands the record of a successful upload to the store:
\* addDocument(result.document)
addUploadedDocument ==
    /\ up # Null /\ up.pc = "done" /\ up.result = "success" /\ ~up.added
    /\ \E o \in Outcomes(1) :
        /\ IF vaultMetadata = Null
           THEN /\ o[1]
                /\ UNCHANGED <<vaultMetadata, storedMeta>>
           ELSE LET newMetadata ==
                        AddedMetadata(vaultMetadata, appState, up.document)
                IN /\ storedMeta' = saveVaultMetadata(newMetadata, o[1])
                   /\ vaultMetadata' = newMetadata
        /\ faults' = faults + Thrown(o)
    /\ last' = Op("addDocument", up.document, "void", <<>>)
    /\ up' = [up EXCEPT !.added = TRUE]
    /\ UNCHANGED <<appState, user, secureData, masterKey, isLoading,
                   storedSecure, session, rng>>
    /\ UNCHANGED <<blobs, down>>
    /\ UNCHANGED cryptoVars
    /\ UNCHANGED screenVars

\* deleteDocumentShards: remove() deletes the paths, or reports an error
deleteDocumentShards(shardIds, userId, removed) ==
    IF removed
    THEN {b \in blobs : b.path \notin FilePaths(shardIds, userId)}
    ELSE blobs

\* VaultHomeScreen.handleDeleteDocument, confirmed: deleteDocument(doc,
\* user.id), whose result is not looked at, then removeDocument(doc.id)
handleDeleteDocument ==
    /\ appState = "VAULT_UNLOCKED" /\ user # Null
    /\ \E i \in 1..Len(getDocuments(vaultMetadata, appState)),
          removed \in BOOLEAN, o \in Outcomes(1) :
        LET doc == getDocuments(vaultMetadata, appState)[i]
            newMetadata == RemovedMetadata(vaultMetadata, appState, doc.id)
        IN /\ blobs' = deleteDocumentShards(doc.shardIds, user.id, removed)
           /\ storedMeta' = saveVaultMetadata(newMetadata, o[1])
           /\ vaultMetadata' = newMetadata
           /\ faults' = faults + Thrown(o)
           /\ last' = Op("handleDeleteDocument", doc, "void", <<>>)
    /\ UNCHANGED <<appState, user, secureData, masterKey, isLoading,
                   storedSecure, session, rng>>
    /\ UNCHANGED <<up, down>>
    /\ UNCHANGED cryptoVars
    /\ UNCHANGED screenVars

\* reassembleShards: the data of the shards in the order of their index
reassembleShards(shards) ==
    [k \in 1..Len(shards) |->
        shards[CHOOSE j \in 1..Len(shards) :
                  Cardinality({m \in 1..Len(shards) :
                                  shards[m].index < shards[j].index}) = k - 1].data]

\* ViewerScreen.loadDocument calling downloadDocument(doc, masterKey,
\* user.id) for a document of the list shown; afterUnlock tells that the
\* store operation before the call was an unlock of the locked vault,
\* decrypted is what decryptDocument returned
startDownload ==
    /\ masterKey # Null /\ user # Null
    /\ Returned(down)
    /\ \E n \in 1..Len(getDocuments(vaultMetadata, appState)) :
        LET doc == getDocuments(vaultMetadata, appState)[n]
        IN down' = [doc |-> doc, userId |-> user.id, masterKey |-> masterKey,
                    shardIds |-> doc.shardIds,
                    indices |-> [k \in 1..Len(doc.shardIndices) |->
                                    doc.shardIndices[k].index],
                    i |-> 0, shards |-> <<>>, failedAt |-> 0,
                    allShards |-> "none", reassembled |-> FALSE,
                    payload |-> Null, decryptCalled |-> FALSE,
                    decrypted |-> Null,
                    afterUnlock |-> ( /\ last.op = "unlockVault"
                                      /\ last.ret = "success"
                                      /\ last.from = "VAULT_LOCKED" ),
                    pc |-> "downloading", result |-> "none", data |-> Null]
    /\ UNCHANGED <<blobs, up, last>>
    /\ UNCHANGED storeVars
    /\ UNCHANGED cryptoVars
    /\ UNCHANGED screenVars

\* what downloadDocument does once downloadAllShards has returned shards:
\* reassembleShards and JSON.parse (a SyntaxError ends in the catch), then
\* decryptDocument under the key it was called with; a falsy result is
\* reported as a failure
Opened(d, shards) ==
    LET payload == JSONParse(reassembleShards(shards))
        decryptedData ==
            IF payload = Null THEN Null
            ELSE decryptDocument(payload.data, d.doc.encryptedFEK, d.doc.iv,
                                 payload.dataIV, d.masterKey)
    IN [d EXCEPT !.allShards = "success", !.reassembled = TRUE,
                 !.payload = payload,
                 !.decryptCalled = (payload # Null),
                 !.decrypted = decryptedData,
                 !.pc = "done",
                 !.result = Reported(decryptedData).result,
                 !.data = Reported(decryptedData).data]

\* a loop of downloadAllShards that skips a shard it could not download
DownloadTurn_SkipsFailed(d, body) ==
    LET got == IF body = Null THEN d.shards
               ELSE Append(d.shards, [id |-> d.shardIds[d.i + 1], data |-> body,
                                      index |-> d.indices[d.i + 1]])
    IN IF d.i + 1 < Len(d.shardIds)
       THEN [d EXCEPT !.shards = got, !.i = @ + 1]
       ELSE Opened([d EXCEPT !.shards = got, !.i = @ + 1], got)

\* one turn of the loop of downloadAllShards, and what downloadDocument does
\* with its return: body is the downloaded text, or Null when downloadShard
\* failed
DownloadTurn(d, body) ==
    IF body = Null
    THEN [d EXCEPT !.failedAt = d.i + 1, !.allShards = "failure",
                   !.pc = "done", !.result = "failure"]
    ELSE LET got == Append(d.shards, [id |-> d.shardIds[d.i + 1], data |-> body,
                                      index |-> d.indices[d.i + 1]])
         IN IF d.i + 1 < Len(d.shardIds)
            THEN [d EXCEPT !.shards = got, !.i = @ + 1]
            ELSE Opened([d EXCEPT !.shards = got, !.i = @ + 1], got)

\* downloadShard(shardIds[i], userId): the stored body, or a failure when the
\* object is missing or the transfer fails
downloadShard ==
    /\ down # Null /\ down.pc = "downloading"
    /\ \E transferred \in BOOLEAN :
        LET path == <<down.userId, down.shardIds[down.i + 1]>>
            body == IF transferred /\ Stored(path)
                    THEN (CHOOSE b \in blobs : b.path = path).data
                    ELSE Null
        IN down' = DownloadTurn(down, body)
    /\ UNCHANGED <<blobs, up, last>>
    /\ UNCHANGED storeVars
    /\ UNCHANGED cryptoVars
    /\ UNCHANGED screenVars

\* the store after signIn, setupPins('482913', '001122'), completeSetup and
\* unlockVault('482913'): a session with the vault open
OpenedVault ==
    LET sd == [NewSecureData("482913", "001122", 0, Null)
                  EXCEPT !.setupComplete = TRUE]
    IN /\ appState = "VAULT_UNLOCKED"
       /\ user = [id |-> "u1"]
       /\ secureData = sd
       /\ vaultMetadata = EmptyMetadata
       /\ masterKey = deriveMasterKey("482913", sd.masterKeySalt)
       /\ isLoading = FALSE
       /\ storedSecure = sd
       /\ storedMeta = Null
       /\ session = [id |-> "u1"]
       /\ rng = 3
       /\ faults = 0
       /\ last = [op |-> "unlockVault", arg |-> "482913", ret |-> "success",
                  crypto |-> <<"verifyPin", "verifyPin", "deriveMasterKey">>,
                  from |-> "VAULT_LOCKED"]

StorageInit ==
    /\ OpenedVault
    /\ blobs = {}
    /\ up = Null
    /\ down = Null
    /\ env = Null
    /\ screen = Null
    /\ calls = <<>>

StorageNext ==
    \/ startUpload
    \/ uploadShard
    \/ cleanupShards
    \/ addUploadedDocument
    \/ handleDeleteDocument
    \/ startDownload
    \/ downloadShard
    \/ lockVault
    \/ unlockVault
    \/ signOut

StorageSpec == StorageInit /\ [][StorageNext]_vars

\* ------------------------------------------------- the sessions of a vault
\* the opened vault after uploadDocument has stored the first file, split in
\* the given order, and addDocument has persisted its record
UploadedVault(order) ==
    LET sd == [NewSecureData("482913", "001122", 0, Null)
                  EXCEPT !.setupComplete = TRUE]
        key == deriveMasterKey("482913", sd.masterKeySalt)
        enc == encryptDocument(Content(1), key, Fresh("fek", 1),
                               Fresh("dataIV", 1), Fresh("fekIV", 1))
        shards == splitIntoShards(encryptedPayload(enc), 1, order)
        shardIds == [j \in 1..NumShards |-> shards[j].id]
        document == NewDocument(1, shardIds, shards, enc)
        metadata == AddedMetadata(EmptyMetadata, "VAULT_UNLOCKED", document)
    IN /\ appState = "VAULT_UNLOCKED"
       /\ user = [id |-> "u1"]
       /\ secureData = sd
       /\ vaultMetadata = metadata
       /\ masterKey = key
       /\ isLoading = FALSE
       /\ storedSecure = sd
       /\ storedMeta = metadata
       /\ session = [id |-> "u1"]
       /\ rng = 3
       /\ faults = 0
       /\ last = [op |-> "addDocument", arg |-> document, ret |-> "void",
                  crypto |-> <<>>, from |-> "VAULT_UNLOCKED"]
       /\ blobs = {Blob("u1", shards[j]) : j \in 1..NumShards}
       /\ up = [doc |-> 1, userId |-> "u1", enc |-> enc, shards |-> shards,
                i |-> NumShards, shardIds |-> shardIds, pc |-> "done",
                result |-> "success", document |-> document, added |-> TRUE]
       /\ down = Null

SessionInit ==
    /\ \E order \in SplitOrders : UploadedVault(order)
    /\ env = Null
    /\ screen = Null
    /\ calls = <<>>

\* the session is ended and begun again, and documents are opened
SessionNext ==
    \/ lockVault
    \/ unlockVault
    \/ signOut
    \/ signIn
    \/ initialize
    \/ startDownload
    \/ downloadShard

SessionSpec == SessionInit /\ [][SessionNext]_vars

\* ------------------------------------------- the encryption service alone
\* a document and a master key handed to the encryption service
CryptoInit ==
    /\ appState = "UNAUTHENTICATED"
    /\ user = Null
    /\ secureData = Null
    /\ vaultMetadata = Null
    /\ masterKey = Null
    /\ isLoading = TRUE
    /\ storedSecure = Null
    /\ storedMeta = Null
    /\ session = Null
    /\ rng = 0
    /\ faults = 0
    /\ last = Op("init", 0, "void", <<>>)
    /\ blobs = {}
    /\ up = Null
    /\ down = Null
    /\ env \in {[pc |-> "plain", document |-> d, masterKey |-> k] :
                    d \in Plaintexts, k \in MasterKeys}
    /\ screen = Null
    /\ calls = <<>>

\* encryptDocument(document, masterKey)
callEncryptDocument ==
    /\ env.pc = "plain"
    /\ \E fek \in FEKs, dataIV \in IVs, fekIV \in IVs :
        env' = [pc |-> "sealed", document |-> env.document,
                masterKey |-> env.masterKey,
                sealed |-> encryptDocument(env.document, env.masterKey,
                                           fek, dataIV, fekIV),
                altered |-> "none", part |-> "none"]
    /\ UNCHANGED storeVars
    /\ UNCHANGED storageVars
    /\ UNCHANGED last
    /\ UNCHANGED screenVars

\* the sealed body or the wrapped FEK is altered where it is kept
alterSealed ==
    /\ env.pc = "sealed" /\ env.altered = "none"
    /\ \E part \in {"encryptedData", "encryptedFEK"}, how \in Alterations :
        env' = [env EXCEPT !.sealed[part] = Altered(@, how),
                           !.altered = how, !.part = part]
    /\ UNCHANGED storeVars
    /\ UNCHANGED storageVars
    /\ UNCHANGED last
    /\ UNCHANGED screenVars

\* dataIV, kept in the sharded payload, or fekIV, kept in the Document
\* Record, is replaced while the sealed texts stay as they are
alterIV ==
    /\ env.pc = "sealed" /\ env.altered = "none"
    /\ \E part \in {"dataIV", "fekIV"}, iv \in OtherIVs :
        env' = [env EXCEPT !.sealed[part] = iv,
                           !.altered = "iv", !.part = part]
    /\ UNCHANGED storeVars
    /\ UNCHANGED storageVars
    /\ UNCHANGED last
    /\ UNCHANGED screenVars

\* decryptDocument(encryptedData, encryptedFEK, fekIV, dataIV, key) as
\* downloadDocument calls it, and what downloadDocument returns for it
callDecryptDocument ==
    /\ env.pc = "sealed"
    /\ \E key \in MasterKeys :
        LET run == decryptDocumentRun(env.sealed.encryptedData,
                                      env.sealed.encryptedFEK,
                                      env.sealed.fekIV,
                                      env.sealed.dataIV, key)
        IN env' = [pc |-> "opened", document |-> env.document,
                   masterKey |-> env.masterKey, sealed |-> env.sealed,
                   altered |-> env.altered, part |-> env.part,
                   key |-> key,
                   out |-> run.out,
                   calls |-> run.calls,
                   report |-> Reported(run.out)]
    /\ UNCHANGED storeVars
    /\ UNCHANGED storageVars
    /\ UNCHANGED last
    /\ UNCHANGED screenVars

CryptoNext ==
    \/ callEncryptDocument
    \/ alterSealed
    \/ alterIV
    \/ callDecryptDocument

CryptoSpec == CryptoInit /\ [][CryptoNext]_vars

\* ------------------------------------------- the setup and unlock screens
\* the PIN verifies against the primary, the duress commitment of the record
MatchesPrimary(pin, sd) == sd # Null /\ verifyPin(pin, sd.pinSalt, sd.pinHash)
MatchesDuress(pin, sd) == sd # Null /\ verifyPin(pin, sd.duressSalt, sd.duressHash)

\* the component state of the screens: the route shown, stage, primaryPin
\* and duressPin of the PIN setup screen, attempts of the unlock screen;
\* typed lists the PINs typed into the PIN setup screen since it was mounted
PinSetupScreen ==
    [route |-> "/setup/pin", stage |-> "primary", primaryPin |-> "",
     duressPin |-> "", attempts |-> 0, typed |-> <<>>]

\* router.replace: the screen is left and the one of the route is mounted
Replaced(sc, route) ==
    IF route = "/vault/unlock"
    THEN [sc EXCEPT !.route = route, !.attempts = 0]
    ELSE [sc EXCEPT !.route = route]

\* the PIN setup screen taking any duress PIN
PinEntered_SamePinAllowed(sc, pin) ==
    IF sc.stage = "primary"
    THEN [stage |-> "confirmPrimary", primaryPin |-> pin,
          duressPin |-> sc.duressPin, save |-> FALSE]
    ELSE IF sc.stage = "confirmPrimary"
    THEN IF pin = sc.primaryPin
         THEN [stage |-> "duress", primaryPin |-> sc.primaryPin,
               duressPin |-> sc.duressPin, save |-> FALSE]
         ELSE [stage |-> "primary", primaryPin |-> "",
               duressPin |-> sc.duressPin, save |-> FALSE]
    ELSE IF sc.stage = "duress"
    THEN [stage |-> "confirmDuress", primaryPin |-> sc.primaryPin,
          duressPin |-> pin, save |-> FALSE]
    ELSE IF pin = sc.duressPin
         THEN [stage |-> sc.stage, primaryPin |-> sc.primaryPin,
               duressPin |-> sc.duressPin, save |-> TRUE]
         ELSE [stage |-> "duress", primaryPin |-> sc.primaryPin,
               duressPin |-> "", save |-> FALSE]

\* the switch of PinSetupScreen.handlePinComplete: the stage and the PINs
\* kept after pin was entered, and whether setupPins is called (save)
PinEntered(sc, pin) ==
    IF sc.stage = "primary"
    THEN [stage |-> "confirmPrimary", primaryPin |-> pin,
          duressPin |-> sc.duressPin, save |-> FALSE]
    ELSE IF sc.stage = "confirmPrimary"
    THEN IF pin = sc.primaryPin
         THEN [stage |-> "duress", primaryPin |-> sc.primaryPin,
               duressPin |-> sc.duressPin, save |-> FALSE]
         ELSE [stage |-> "primary", primaryPin |-> "",
               duressPin |-> sc.duressPin, save |-> FALSE]
    ELSE IF sc.stage = "duress"
    THEN IF pin = sc.primaryPin
         THEN [stage |-> sc.stage, primaryPin |-> sc.primaryPin,
               duressPin |-> sc.duressPin, save |-> FALSE]
         ELSE [stage |-> "confirmDuress", primaryPin |-> sc.primaryPin,
               duressPin |-> pin, save |-> FALSE]
    ELSE IF pin = sc.duressPin
         THEN [stage |-> sc.stage, primaryPin |-> sc.primaryPin,
               duressPin |-> sc.duressPin, save |-> TRUE]
         ELSE [stage |-> "duress", primaryPin |-> sc.primaryPin,
               duressPin |-> "", save |-> FALSE]

\* PinSetupScreen.handlePinComplete(pin); in the last stage a matching PIN
\* calls setupPins(primaryPin, duressPin), whose success leads to the
\* biometric setup screen and whose failure restarts the screen
pinHandlePinComplete ==
    /\ screen # Null /\ screen.route = "/setup/pin"
    /\ Len(screen.typed) < MaxTyped
    /\ \E pin \in Pins, o \in Outcomes(2) :
        LET step == PinEntered(screen, pin)
            entered == [screen EXCEPT !.stage = step.stage,
                                      !.primaryPin = step.primaryPin,
                                      !.duressPin = step.duressPin,
                                      !.typed = Append(@, pin)]
            pins == [primaryPin |-> screen.primaryPin,
                     duressPin |-> screen.duressPin]
        IN IF ~step.save
           THEN /\ o[1] /\ o[2]
                /\ screen' = entered
                /\ last' = Op("PinSetupScreen.handlePinComplete", pin, "void", <<>>)
                /\ UNCHANGED <<secureData, storedSecure, rng, faults>>
           ELSE /\ IF ~o[1]
                   THEN /\ o[2]
                        /\ last' = Op("setupPins", pins, "false", <<>>)
                        /\ screen' = [entered EXCEPT !.stage = "primary",
                                                     !.primaryPin = "",
                                                     !.duressPin = ""]
                        /\ UNCHANGED <<secureData, storedSecure, rng>>
                   ELSE /\ rng + 3 <= MaxRandom
                        /\ LET data == NewSecureData(screen.primaryPin,
                                                     screen.duressPin, rng,
                                                     secureData)
                           IN /\ storedSecure' = saveSecureData(data, o[2])
                              /\ secureData' = data
                        /\ rng' = rng + 3
                        /\ last' = Op("setupPins", pins, "true",
                                      <<"hashPin", "hashPin">>)
                        /\ screen' = Replaced(entered, "/setup/biometric")
                /\ faults' = faults + Thrown(o)
    /\ UNCHANGED <<appState, user, vaultMetadata, masterKey, isLoading,
                   storedMeta, session>>
    /\ UNCHANGED storageVars
    /\ UNCHANGED cryptoVars
    /\ UNCHANGED calls

\* enableBiometrics(enabled) followed by completeSetup(), as the biometric
\* setup screen calls them, and router.replace('/vault/unlock')
FinishSetup(enabled, name) ==
    /\ \E o \in Outcomes(2) :
        /\ IF secureData = Null
           THEN /\ o[1] /\ o[2]
                /\ UNCHANGED <<secureData, storedSecure, appState>>
           ELSE LET newData == [secureData EXCEPT !.biometricEnabled = enabled]
                    complete == [newData EXCEPT !.setupComplete = TRUE]
                IN /\ storedSecure' =
                          IF o[2] THEN complete
                          ELSE saveSecureData(newData, o[1])
                   /\ secureData' = complete
                   /\ appState' = "VAULT_LOCKED"
        /\ faults' = faults + Thrown(o)
    /\ screen' = Replaced(screen, "/vault/unlock")
    /\ last' = Op(name, 0, "void", <<>>)
    /\ UNCHANGED <<user, vaultMetadata, masterKey, isLoading, storedMeta,
                   session, rng>>

\* BiometricSetupScreen.handleEnableBiometrics: nothing is written when the
\* biometric check fails
handleEnableBiometrics ==
    /\ screen # Null /\ screen.route = "/setup/biometric"
    /\ \E authenticated \in BOOLEAN :
        IF authenticated
        THEN FinishSetup(TRUE, "handleEnableBiometrics")
        ELSE /\ last' = Op("handleEnableBiometrics", 0, "void", <<>>)
             /\ UNCHANGED storeVars
             /\ UNCHANGED screen
    /\ UNCHANGED storageVars
    /\ UNCHANGED cryptoVars
    /\ UNCHANGED calls

\* BiometricSetupScreen.handleSkip
handleSkip ==
    /\ screen # Null /\ screen.route = "/setup/biometric"
    /\ FinishSetup(FALSE, "handleSkip")
    /\ UNCHANGED storageVars
    /\ UNCHANGED cryptoVars
    /\ UNCHANGED calls

\* an unlock screen that stops calling unlockVault after five failures
Submitted_LockedOut(pin, attempts, sd, curState, curKey) ==
    IF attempts >= 5
    THEN [ret |-> "failed", appState |-> curState, masterKey |-> curKey,
          crypto |-> <<>>]
    ELSE UnlockOutcome(pin, sd, curState, curKey)

\* what UnlockScreen.handlePinComplete gets for a PIN after attempts
\* failures: the result of unlockVault(pin), whatever the count
Submitted(pin, attempts, sd, curState, curKey) ==
    UnlockOutcome(pin, sd, curState, curKey)

\* UnlockScreen.handlePinComplete(pin): success and duress leave for the
\* vault and the decoy vault, a failure counts one more attempt
unlockHandlePinComplete ==
    /\ screen # Null /\ screen.route = "/vault/unlock"
    /\ \E pin \in Pins :
        LET r == Submitted(pin, screen.attempts, secureData, appState, masterKey)
        IN /\ \/ screen.attempts < MaxAttempts
              \/ MatchesPrimary(pin, secureData)
              \/ MatchesDuress(pin, secureData)
           /\ appState' = r.appState
           /\ masterKey' = r.masterKey
           /\ screen' = IF r.ret = "success" THEN Replaced(screen, "/vault/")
                        ELSE IF r.ret = "duress"
                        THEN Replaced(screen, "/vault/decoy")
                        ELSE [screen EXCEPT !.attempts = @ + 1]
           /\ last' = Op("UnlockScreen.handlePinComplete", pin, r.ret, r.crypto)
    /\ UNCHANGED <<user, secureData, vaultMetadata, isLoading,
                   storedSecure, storedMeta, session, rng, faults>>
    /\ UNCHANGED storageVars
    /\ UNCHANGED cryptoVars
    /\ UNCHANGED calls

\* a biometric handler that opens the vault once the user is verified
BiometricVerified_Unlocks(authenticated, curState, curKey) ==
    IF authenticated
    THEN [appState |-> "VAULT_UNLOCKED", masterKey |-> curKey]
    ELSE [appState |-> curState, masterKey |-> curKey]

\* appState and masterKey after UnlockScreen.handleBiometric: an alert is
\* shown when authenticated, and nothing of the store is called
BiometricVerified(authenticated, curState, curKey) ==
    [appState |-> curState, masterKey |-> curKey]

\* UnlockScreen.handleBiometric, the key being shown when biometrics are
\* enabled and available
handleBiometric ==
    /\ screen # Null /\ screen.route = "/vault/unlock"
    /\ secureData # Null /\ secureData.biometricEnabled
    /\ \E authenticated \in BOOLEAN :
        LET r == BiometricVerified(authenticated, appState, masterKey)
        IN /\ appState' = r.appState
           /\ masterKey' = r.masterKey
           /\ last' = Op("handleBiometric", 0,
                         IF authenticated THEN "true" ELSE "false", <<>>)
    /\ UNCHANGED <<user, secureData, vaultMetadata, isLoading,
                   storedSecure, storedMeta, session, rng, faults>>
    /\ UNCHANGED storageVars
    /\ UNCHANGED cryptoVars
    /\ UNCHANGED screenVars

\* handleLock of the vault home and of the decoy vault: lockVault() and
\* router.replace('/vault/unlock')
handleLock ==
    /\ screen # Null /\ screen.route \in {"/vault/", "/vault/decoy"}
    /\ appState' = Locked.appState
    /\ masterKey' = Locked.masterKey
    /\ screen' = Replaced(screen, "/vault/unlock")
    /\ last' = Op("lockVault", 0, "void", <<>>)
    /\ UNCHANGED <<user, secureData, vaultMetadata, isLoading,
                   storedSecure, storedMeta, session, rng, faults>>
    /\ UNCHANGED storageVars
    /\ UNCHANGED cryptoVars
    /\ UNCHANGED calls

\* handleSignOut of the PIN setup and unlock screens, confirmed: signOut()
\* and router.replace('/auth/signin')
handleSignOut ==
    /\ screen # Null /\ screen.route \in {"/setup/pin", "/vault/unlock"}
    /\ session' = Null
    /\ user' = SignedOut.user
    /\ secureData' = SignedOut.secureData
    /\ vaultMetadata' = SignedOut.vaultMetadata
    /\ masterKey' = SignedOut.masterKey
    /\ appState' = SignedOut.appState
    /\ isLoading' = FALSE
    /\ screen' = Replaced(screen, "/auth/signin")
    /\ last' = Op("signOut", 0, "void", <<>>)
    /\ UNCHANGED <<storedSecure, storedMeta, rng, faults>>
    /\ UNCHANGED storageVars
    /\ UNCHANGED cryptoVars
    /\ UNCHANGED calls

\* the store after signUp returned true, the PIN setup screen mounted
SignedUp ==
    /\ appState = "AUTHENTICATED"
    /\ user = [id |-> "u1"]
    /\ secureData = Null
    /\ vaultMetadata = EmptyMetadata
    /\ masterKey = Null
    /\ isLoading = FALSE
    /\ storedSecure = Null
    /\ storedMeta = Null
    /\ session = [id |-> "u1"]
    /\ rng = 0
    /\ faults = 0
    /\ last = [op |-> "signUp", arg |-> 0, ret |-> "true", crypto |-> <<>>,
               from |-> "UNAUTHENTICATED"]

ScreenInit ==
    /\ SignedUp
    /\ blobs = {}
    /\ up = Null
    /\ down = Null
    /\ env = Null
    /\ screen = PinSetupScreen
    /\ calls = <<>>

ScreenNext ==
    \/ pinHandlePinComplete
    \/ handleEnableBiometrics
    \/ handleSkip
    \/ unlockHandlePinComplete
    \/ handleBiometric
    \/ handleLock
    \/ handleSignOut

ScreenSpec == ScreenInit /\ [][ScreenNext]_vars

\* ------------------------------------------- document calls that overlap
\* addDocument and removeDocument are async: each reads the store with get(),
\* hands newMetadata to saveVaultMetadata, awaits it, and then calls set, so
\* another call may read the store while the first one waits.  calls lists
\* the calls in the order they were made; AsyncStorage runs its requests in
\* that order and the awaiting calls resume in that order.

\* the opened vault of a session whose real collection is docs
HeldVault(docs) ==
    LET sd == [NewSecureData("482913", "001122", 0, Null)
                  EXCEPT !.setupComplete = TRUE]
        metadata == [EmptyMetadata EXCEPT !.documents = docs]
    IN /\ appState = "VAULT_UNLOCKED"
       /\ user = [id |-> "u1"]
       /\ secureData = sd
       /\ vaultMetadata = metadata
       /\ masterKey = deriveMasterKey("482913", sd.masterKeySalt)
       /\ isLoading = FALSE
       /\ storedSecure = sd
       /\ storedMeta = IF docs = <<>> THEN Null ELSE metadata
       /\ session = [id |-> "u1"]
       /\ rng = 3
       /\ faults = 0
       /\ last = [op |-> "unlockVault", arg |-> "482913", ret |-> "success",
                  crypto |-> <<"verifyPin", "verifyPin", "deriveMasterKey">>,
                  from |-> "VAULT_LOCKED"]

\* the call made: what get() returned, and the newMetadata built from it
Call(name, arg, newMetadata) ==
    [op |-> name, arg |-> arg, seen |-> vaultMetadata, state |-> appState,
     newMetadata |-> newMetadata,
     pc |-> IF vaultMetadata = Null THEN "done" ELSE "saving"]

\* addDocument up to its await: get(), the null guard, newMetadata and the
\* call of saveVaultMetadata
addDocumentCalled ==
    /\ Len(calls) < MaxCalls
    /\ \E docId \in OverlapDocIds :
        LET doc == [id |-> docId]
        IN calls' = Append(calls,
              Call("addDocument", doc,
                   IF vaultMetadata = Null THEN Null
                   ELSE AddedMetadata(vaultMetadata, appState, doc)))
    /\ UNCHANGED <<storeVars, last, screen>>
    /\ UNCHANGED storageVars
    /\ UNCHANGED cryptoVars

\* removeDocument up to its await
removeDocumentCalled ==
    /\ Len(calls) < MaxCalls
    /\ \E docId \in OverlapDocIds :
        calls' = Append(calls,
              Call("removeDocument", docId,
                   IF vaultMetadata = Null THEN Null
                   ELSE RemovedMetadata(vaultMetadata, appState, docId)))
    /\ UNCHANGED <<storeVars, last, screen>>
    /\ UNCHANGED storageVars
    /\ UNCHANGED cryptoVars

\* the write of the oldest waiting call is carried out, or throws
saveVaultMetadataSettled ==
    /\ \E i \in 1..Len(calls), o \in Outcomes(1) :
        /\ calls[i].pc = "saving"
        /\ \A j \in 1..(i - 1) : calls[j].pc # "saving"
        /\ storedMeta' = saveVaultMetadata(calls[i].newMetadata, o[1])
        /\ faults' = faults + Thrown(o)
        /\ calls' = [calls EXCEPT ![i].pc = "setting"]
    /\ UNCHANGED <<appState, user, secureData, vaultMetadata, masterKey,
                   isLoading, storedSecure, session, rng>>
    /\ UNCHANGED <<last, screen>>
    /\ UNCHANGED storageVars
    /\ UNCHANGED cryptoVars

\* the call resumes after its await: set({ vaultMetadata: newMetadata })
resumeAfterSave ==
    /\ \E i \in 1..Len(calls) :
        /\ calls[i].pc = "setting"
        /\ \A j \in 1..(i - 1) : calls[j].pc = "done"
        /\ vaultMetadata' = calls[i].newMetadata
        /\ calls' = [calls EXCEPT ![i].pc = "done"]
        /\ last' = [op |-> calls[i].op, arg |-> calls[i].arg, ret |-> "void",
                    crypto |-> <<>>, from |-> calls[i].state]
    /\ UNCHANGED <<appState, user, secureData, masterKey, isLoading,
                   storedSecure, storedMeta, session, rng, faults>>
    /\ UNCHANGED screen
    /\ UNCHANGED storageVars
    /\ UNCHANGED cryptoVars

OverlapInit ==
    /\ \E docs \in {<<>>, <<[id |-> "d1"]>>} : HeldVault(docs)
    /\ blobs = {}
    /\ up = Null
    /\ down = Null
    /\ env = Null
    /\ screen = Null
    /\ calls = <<>>

OverlapNext ==
    \/ addDocumentCalled
    \/ removeDocumentCalled
    \/ saveVaultMetadataSettled
    \/ resumeAfterSave

OverlapSpec == OverlapInit /\ [][OverlapNext]_vars

\* ------------------------------------------- one device, several accounts
\* the Credential Record the first user of the device has set up, and the
\* collections with the record of the document that user has added
FirstUserSecure ==
    [NewSecureData("482913", "001122", 0, Null) EXCEPT !.setupComplete = TRUE]
FirstUserDocument == [id |-> "d0"]
FirstUserMetadata ==
    AddedMetadata(EmptyMetadata, "VAULT_UNLOCKED", FirstUserDocument)

\* the device after its first user has signed out: signOut has emptied the
\* store and ended the session, the two persisted items are still there
DeviceInit ==
    /\ appState = SignedOut.appState
    /\ user = SignedOut.user
    /\ secureData = SignedOut.secureData
    /\ vaultMetadata = SignedOut.vaultMetadata
    /\ masterKey = SignedOut.masterKey
    /\ isLoading = FALSE
    /\ storedSecure = FirstUserSecure
    /\ storedMeta = FirstUserMetadata
    /\ session = Null
    /\ rng = 3
    /\ faults = 0
    /\ last = [op |-> "signOut", arg |-> 0, ret |-> "void", crypto |-> <<>>,
               from |-> "VAULT_UNLOCKED"]
    /\ blobs = {}
    /\ up = Null
    /\ down = Null
    /\ env = Null
    /\ screen = Null
    /\ calls = <<>>

\* another account signs in, signs up, on the device
signInOther == \E u \in OtherUsers : signInAs(u)
signUpOther == \E u \in OtherUsers : signUpAs(u)

DeviceNext ==
    \/ signInOther
    \/ signUpOther
    \/ signOut
    \/ setupPins
    \/ enableBiometrics
    \/ completeSetup
    \/ unlockVault
    \/ lockVault
    \/ addDocument
    \/ removeDocument

DeviceSpec == DeviceInit /\ [][DeviceNext]_vars

\* ------------------------------------------------------------ properties

Contains(seq, x) == \E i \in 1..Len(seq) : seq[i] = x

\* C1: in every reachable state masterKey is non-null exactly when
\* appState = VAULT_UNLOCKED, and in particular masterKey is null in
\* DURESS_MODE.
C1_MasterKeyIffUnlocked ==
    /\ (masterKey # Null) <=> (appState = "VAULT_UNLOCKED")
    /\ appState = "DURESS_MODE" => masterKey = Null

\* C2: an unlockVault call made in VAULT_LOCKED with a PIN that verifies
\* against the primary commitment and not against the duress commitment
\* returns 'success', moves to VAULT_UNLOCKED and holds the non-null key
\* deriveMasterKey(pin, masterKeySalt).
C2_PrimaryUnlock ==
    [][\A pin \in Pins :
          ( /\ appState = "VAULT_LOCKED"
            /\ MatchesPrimary(pin, secureData)
            /\ ~MatchesDuress(pin, secureData)
            /\ last'.op = "unlockVault" /\ last'.arg = pin )
          => /\ last'.ret = "success"
             /\ appState' = "VAULT_UNLOCKED"
             /\ masterKey' = deriveMasterKey(pin, secureData.masterKeySalt)
             /\ masterKey' # Null]_vars

C2_Witness ==
    /\ last.op = "unlockVault" /\ last.from = "VAULT_LOCKED"
    /\ last.ret = "success"
    /\ MatchesPrimary(last.arg, secureData)
    /\ ~MatchesDuress(last.arg, secureData)
    /\ masterKey = deriveMasterKey(last.arg, secureData.masterKeySalt)

\* C3: an unlockVault call with a PIN that verifies against the duress
\* commitment returns 'duress', moves to DURESS_MODE, leaves masterKey null
\* and makes no deriveMasterKey call, also when the PIN verifies against the
\* primary commitment too.
C3_DuressUnlock ==
    [][\A pin \in Pins :
          ( /\ MatchesDuress(pin, secureData)
            /\ last'.op = "unlockVault" /\ last'.arg = pin )
          => /\ last'.ret = "duress"
             /\ appState' = "DURESS_MODE"
             /\ masterKey' = Null
             /\ ~Contains(last'.crypto, "deriveMasterKey")]_vars

C3_Witness ==
    /\ last.op = "unlockVault" /\ last.ret = "duress"
    /\ MatchesDuress(last.arg, secureData)
    /\ MatchesPrimary(last.arg, secureData)
    /\ appState = "DURESS_MODE" /\ masterKey = Null

\* C4: an unlockVault call with a PIN that matches neither commitment, or
\* made while no Credential Record is loaded, returns 'failed' and leaves
\* appState, masterKey, secureData and vaultMetadata as they were.
C4_FailedUnlock ==
    [][\A pin \in Pins :
          ( /\ ~MatchesDuress(pin, secureData)
            /\ ~MatchesPrimary(pin, secureData)
            /\ last'.op = "unlockVault" /\ last'.arg = pin )
          => /\ last'.ret = "failed"
             /\ UNCHANGED <<appState, masterKey, secureData, vaultMetadata>>]_vars

C4_Witness ==
    /\ last.op = "unlockVault" /\ last.ret = "failed"
    /\ last.from = "VAULT_UNLOCKED" /\ appState = "VAULT_UNLOCKED"
    /\ secureData # Null
    /\ ~MatchesDuress(last.arg, secureData)
    /\ ~MatchesPrimary(last.arg, secureData)
    /\ masterKey # Null

\* C5: a lockVault call made in VAULT_UNLOCKED or DURESS_MODE moves to
\* VAULT_LOCKED with masterKey null (the store keeps no reference to the
\* previous key) and leaves user, secureData and vaultMetadata unchanged.
C5_LockVault ==
    [][( /\ appState \in {"VAULT_UNLOCKED", "DURESS_MODE"}
         /\ last'.op = "lockVault" )
       => /\ appState' = "VAULT_LOCKED"
          /\ masterKey' = Null
          /\ UNCHANGED <<user, secureData, vaultMetadata>>]_vars

C5_Witness ==
    /\ last.op = "lockVault" /\ last.from = "VAULT_UNLOCKED"
    /\ appState = "VAULT_LOCKED" /\ masterKey = Null
    /\ secureData # Null /\ user # Null

\* C6: a signOut call made in any appState ends in UNAUTHENTICATED with
\* masterKey, user and the in-memory secureData null, and leaves the persisted
\* Credential Record unchanged.
C6_SignOut ==
    [][last'.op = "signOut"
       => /\ appState' = "UNAUTHENTICATED"
          /\ masterKey' = Null
          /\ user' = Null
          /\ secureData' = Null
          /\ storedSecure' = storedSecure]_vars

C6_Witness ==
    /\ last.op = "signOut" /\ last.from = "VAULT_UNLOCKED"
    /\ appState = "UNAUTHENTICATED"
    /\ secureData = Null /\ masterKey = Null /\ user = Null
    /\ storedSecure # Null

\* C7: addDocument and removeDocument called in DURESS_MODE change only
\* decoyDocuments, called in VAULT_UNLOCKED only documents, the other
\* collection staying as it was; getDocuments returns decoyDocuments in
\* DURESS_MODE and documents in VAULT_UNLOCKED.
C7_DocumentRouting ==
    [][ /\ ( /\ last'.op = "addDocument" /\ vaultMetadata # Null
             /\ appState = "DURESS_MODE" )
           => /\ vaultMetadata'.decoyDocuments =
                     Append(vaultMetadata.decoyDocuments, last'.arg)
              /\ vaultMetadata'.documents = vaultMetadata.documents
        /\ ( /\ last'.op = "addDocument" /\ vaultMetadata # Null
             /\ appState = "VAULT_UNLOCKED" )
           => /\ vaultMetadata'.documents =
                     Append(vaultMetadata.documents, last'.arg)
              /\ vaultMetadata'.decoyDocuments = vaultMetadata.decoyDocuments
        /\ ( /\ last'.op = "removeDocument" /\ vaultMetadata # Null
             /\ appState = "DURESS_MODE" )
           => /\ vaultMetadata'.decoyDocuments =
                     FilterOut(vaultMetadata.decoyDocuments, last'.arg)
              /\ vaultMetadata'.documents = vaultMetadata.documents
        /\ ( /\ last'.op = "removeDocument" /\ vaultMetadata # Null
             /\ appState = "VAULT_UNLOCKED" )
           => /\ vaultMetadata'.documents =
                     FilterOut(vaultMetadata.documents, last'.arg)
              /\ vaultMetadata'.decoyDocuments = vaultMetadata.decoyDocuments
        /\ appState' = "DURESS_MODE"
           => getDocuments(vaultMetadata', appState') = DecoyDocuments(vaultMetadata')
        /\ appState' = "VAULT_UNLOCKED"
           => getDocuments(vaultMetadata', appState') = Documents(vaultMetadata')
      ]_vars

C7_Witness ==
    /\ last.op = "addDocument" /\ last.from = "DURESS_MODE"
    /\ appState = "DURESS_MODE"
    /\ vaultMetadata # Null
    /\ vaultMetadata.documents = <<>>
    /\ Contains(vaultMetadata.decoyDocuments, last.arg)
    /\ getDocuments(vaultMetadata, appState) = vaultMetadata.decoyDocuments

\* C8: no user action of a decoy session (upload, delete on the decoy
\* screen, the settings screen's biometric toggle, sign-out and Delete
\* Account) changes the real collection, in memory while a collection is
\* loaded or as persisted; and no such action of a VAULT_UNLOCKED session
\* changes the decoy collection.
SessionActions ==
    {"addDocument", "removeDocument", "decoyDeleteDocument",
     "enableBiometrics", "signOut", "handleDeleteAccount"}

C8_DecoyIsolation ==
    [][last'.op \in SessionActions
       => /\ appState = "DURESS_MODE"
             => /\ Documents(storedMeta') = Documents(storedMeta)
                /\ vaultMetadata' # Null
                   => Documents(vaultMetadata') = Documents(vaultMetadata)
          /\ appState = "VAULT_UNLOCKED"
             => /\ DecoyDocuments(storedMeta') = DecoyDocuments(storedMeta)
                /\ vaultMetadata' # Null
                   => DecoyDocuments(vaultMetadata') = DecoyDocuments(vaultMetadata)
      ]_vars

\* C9: when uploadAllShards has returned failure, no shard of the document
\* it was uploading is left in the blob store, whatever shard failed and
\* whatever the storage calls returned.
C9_NoShardLeftAfterFailure ==
    (up # Null /\ up.pc = "done" /\ up.result = "failure")
    => \A k \in 1..Len(up.shards) : ~Stored(<<up.userId, up.shards[k].id>>)

\* C10: when the download of a shard of the record fails, downloadAllShards
\* and downloadDocument return failure with no data and neither reassembly
\* nor decryption is run; a successful downloadAllShards returns as many
\* shards as the record lists.
C10_MissingShardAborts ==
    down # Null =>
        /\ down.failedAt # 0
           => /\ down.allShards = "failure"
              /\ down.pc = "done" /\ down.result = "failure"
              /\ down.data = Null
              /\ ~down.reassembled /\ ~down.decryptCalled
        /\ (down.reassembled \/ down.decryptCalled \/ down.data # Null)
           => /\ down.allShards = "success"
              /\ Len(down.shards) = Len(down.shardIds)
        /\ down.allShards = "success"
           => /\ Len(down.shards) = Len(down.shardIds)
              /\ \A k \in 1..Len(down.shards) :
                    down.shards[k].id = down.shardIds[k]
        /\ (down.pc = "done" /\ Len(down.shards) < Len(down.shardIds))
           => down.result = "failure" /\ down.data = Null

C10_Witness ==
    /\ down # Null /\ down.pc = "done"
    /\ down.failedAt = 2 /\ Len(down.shards) = 1
    /\ down.result = "failure" /\ down.data = Null

\* C12: decryptDocument applied to what encryptDocument(D, K) produced,
\* with the same K, returns D, for every document D and master key K.
C12_RoundTrip ==
    ( /\ env # Null /\ env.pc = "opened"
      /\ env.altered = "none"
      /\ env.key = env.masterKey )
    => env.out = env.document

C12_Witness ==
    /\ env # Null /\ env.pc = "opened"
    /\ env.altered = "none"
    /\ env.key = env.masterKey
    /\ env.document = [text |-> "JVBERi0x"]
    /\ env.out = env.document

\* C13: when the sealed body or the wrapped FEK has been altered in any
\* way, decryptDocument returns null, never a plaintext.
C13_AlteredFailsClosed ==
    ( /\ env # Null /\ env.pc = "opened"
      /\ env.altered \in Alterations )
    => env.out = Null

\* C14: every unlockVault call made with a Credential Record loaded performs
\* the same sequence of cryptographic operations, both commitment checks
\* included, whether the PIN is the primary PIN, the duress PIN or neither.
C14_SameCryptoForEveryPin ==
    [][( /\ last'.op = "unlockVault"
         /\ secureData # Null )
       => /\ Len(last'.crypto) >= 2
          /\ last'.crypto[1] = "verifyPin" /\ last'.crypto[2] = "verifyPin"
          /\ \A other \in Pins :
                UnlockOutcome(other, secureData, appState, masterKey).crypto
                    = last'.crypto]_vars

\* C11: the index uploadDocument records for a shard identifier is the index
\* split assigned to that shard, whatever the order in which split returned
\* the shards, downloadDocument pairs each downloaded shard with that index,
\* and the payload reassembled after a complete download is the payload that
\* was split.
C11_RecordedIndexIsSplitIndex ==
    /\ (up # Null /\ up.document # Null)
       => \A i \in 1..Len(up.shards) :
             /\ up.document.shardIndices[i].id = up.shards[i].id
             /\ up.document.shardIndices[i].index = up.shards[i].index
    /\ (down # Null /\ down.reassembled)
       => /\ \A k \in 1..Len(down.shards) :
                down.shards[k].index = down.doc.shardIndices[k].index
          /\ (\A k \in 1..Len(down.shards) :
                 \E b \in blobs : /\ b.path = <<down.userId, down.shards[k].id>>
                                  /\ b.data = down.shards[k].data)
             => down.payload # Null

\* C16: when uploadAllShards returns, uploadDocument returns a Document
\* Record exactly if every shard of the document is stored; the record lists
\* the identifiers of the stored shards in upload order, and a failure
\* produces no record.
C16_RecordIffAllStored ==
    [][( /\ up # Null
         /\ up.pc # "done"
         /\ up'.pc = "done" )
       => /\ (up'.document # Null)
             <=> (\A k \in 1..Len(up'.shards) :
                     StoredIn(blobs', <<up'.userId, up'.shards[k].id>>))
          /\ up'.document # Null
             => /\ up'.result = "success"
                /\ Len(up'.document.shardIds) = Len(up'.shards)
                /\ \A k \in 1..Len(up'.shards) :
                      up'.document.shardIds[k] = up'.shards[k].id
          /\ up'.document = Null => up'.result = "failure"]_vars

C16_Witness ==
    /\ up # Null /\ up.pc = "done" /\ up.result = "success"
    /\ up.document # Null
    /\ up.document.shardIds = up.shardIds
    /\ up.shards[1].index # 0
    /\ \A k \in 1..Len(up.shards) : Stored(<<up.userId, up.shards[k].id>>)

\* C17: after the delete handler of the real vault has finished, the
\* Document Record is absent from vaultMetadata.documents only if every
\* shard of the document is absent from the blob store.
C17_RecordAndShardsDeletedTogether ==
    last.op = "handleDeleteDocument"
    => ( (\A i \in 1..Len(Documents(vaultMetadata)) :
             Documents(vaultMetadata)[i].id # last.arg.id)
         => \A k \in 1..Len(last.arg.shardIds) :
               ~Stored(<<user.id, last.arg.shardIds[k]>>) )

\* the fields of SecureData and of VaultDocument
CredentialFields ==
    {"pinHash", "pinSalt", "duressHash", "duressSalt", "masterKeySalt",
     "biometricEnabled", "setupComplete"}

DocumentFields ==
    {"id", "name", "mimeType", "size", "shardIds", "encryptedFEK", "iv",
     "shardIndices"}

\* C18: whatever has been written, the persisted Credential Record holds
\* only the two PIN commitments, the three salts and the two flags, the
\* persisted metadata holds only Document Records, and the blob store only
\* paths and payload fragments: no master key and no plaintext PIN is among
\* the persisted values.
C18_NoSecretPersisted ==
    /\ storedSecure # Null
       => /\ DOMAIN storedSecure = CredentialFields
          /\ \E pin \in Pins :
                storedSecure.pinHash = hashPin(pin, storedSecure.pinSalt)
          /\ \E pin \in Pins :
                storedSecure.duressHash = hashPin(pin, storedSecure.duressSalt)
          /\ storedSecure.pinSalt \in 1..MaxRandom
          /\ storedSecure.duressSalt \in 1..MaxRandom
          /\ storedSecure.masterKeySalt \in 1..MaxRandom
          /\ storedSecure.biometricEnabled \in BOOLEAN
          /\ storedSecure.setupComplete \in BOOLEAN
    /\ storedMeta # Null
       => /\ DOMAIN storedMeta = {"documents", "decoyDocuments"}
          /\ \A i \in 1..Len(storedMeta.documents) :
                DOMAIN storedMeta.documents[i] \subseteq DocumentFields
          /\ \A i \in 1..Len(storedMeta.decoyDocuments) :
                DOMAIN storedMeta.decoyDocuments[i] \subseteq DocumentFields
    /\ \A b \in blobs : DOMAIN b = {"path", "data"}

C18_Witness ==
    /\ appState = "VAULT_UNLOCKED" /\ masterKey # Null
    /\ storedSecure # Null /\ storedSecure.setupComplete
    /\ DOMAIN storedSecure = CredentialFields
    /\ storedMeta # Null /\ Len(storedMeta.documents) = 1

\* C19: every object of the blob store is a path userId/shardId and a
\* fragment of the sealed payload {data, dataIV}, and nothing else: no
\* wrapped FEK, no FEK IV, no name, mime type, size or shard index.
C19_BlobsHoldOnlyFragments ==
    \A b \in blobs :
        /\ DOMAIN b = {"path", "data"}
        /\ b.path[1] \in Users
        /\ \E n \in 1..MaxUploads, k \in 1..NumShards :
              /\ b.path[2] = (n - 1) * NumShards + k
              /\ b.data.piece = k
        /\ DOMAIN b.data = {"of", "piece"}
        /\ DOMAIN b.data.of = {"data", "dataIV"}
        /\ DOMAIN b.data.of.data = {"encryptedBase64", "storedHmac", "more"}

C19_Witness ==
    /\ up # Null /\ up.pc = "done" /\ up.result = "success"
    /\ Cardinality(blobs) = NumShards
    /\ \A b \in blobs : b.path[1] = up.userId

\* C20: an in-flight downloadDocument calls decryptDocument and delivers a
\* plaintext only while appState is VAULT_UNLOCKED: once lockVault or
\* signOut has run, the operation decrypts nothing.
C20_NoDecryptionAfterLock ==
    [][( /\ down # Null
         /\ down.pc # "done"
         /\ (down'.decryptCalled \/ down'.data # Null) )
       => appState = "VAULT_UNLOCKED"]_vars

\* C24: once setupComplete is true, no store action but account deletion
\* changes masterKeySalt, in the loaded Credential Record or in the
\* persisted one: the salt is generated once, at setup.
C24_MasterKeySaltGeneratedOnce ==
    [][last'.op # "handleDeleteAccount"
       => /\ ( /\ storedSecure # Null /\ storedSecure.setupComplete
               /\ storedSecure' # Null )
             => storedSecure'.masterKeySalt = storedSecure.masterKeySalt
          /\ ( /\ secureData # Null /\ secureData.setupComplete
               /\ secureData' # Null )
             => secureData'.masterKeySalt = secureData.masterKeySalt]_vars

\* the states in which a vault, real or decoy, is open
UnlockedStates == {"VAULT_UNLOCKED", "DURESS_MODE"}

\* C27: in every reachable state, appState = VAULT_LOCKED implies that a
\* Credential Record is loaded with setupComplete = true and that a user is
\* signed in.
C27_LockedImpliesSetupComplete ==
    appState = "VAULT_LOCKED"
    => /\ secureData # Null
       /\ secureData.setupComplete
       /\ user # Null

\* C28: appState enters VAULT_UNLOCKED or DURESS_MODE only by an unlockVault
\* call made in VAULT_LOCKED, and after initialize or signIn it is never
\* VAULT_UNLOCKED or DURESS_MODE.
C28_UnlockedOnlyFromLocked ==
    [][ /\ (appState' \in UnlockedStates /\ appState' # appState)
           => (last'.op = "unlockVault" /\ appState = "VAULT_LOCKED")
        /\ last'.op \in {"initialize", "signIn"}
           => appState' \notin UnlockedStates ]_vars

\* C30: when addDocument or removeDocument has completed with a collection
\* loaded, the in-memory vaultMetadata equals the persisted Vault Metadata.
C30_MemoryEqualsPersisted ==
    [][( /\ last'.op \in {"addDocument", "removeDocument"}
         /\ vaultMetadata # Null )
       => vaultMetadata' = storedMeta']_vars

\* C21: whatever the number of failed attempts the unlock screen has
\* counted, five or more included, a submitted primary PIN gives
\* VAULT_UNLOCKED with the derived key and a submitted duress PIN gives
\* DURESS_MODE.
C21_AttemptsNeverGate ==
    [][\A pin \in Pins :
          ( /\ last'.op = "UnlockScreen.handlePinComplete"
            /\ last'.arg = pin )
          => /\ MatchesDuress(pin, secureData)
                => /\ last'.ret = "duress"
                   /\ appState' = "DURESS_MODE"
                   /\ screen'.route = "/vault/decoy"
             /\ (MatchesPrimary(pin, secureData) /\ ~MatchesDuress(pin, secureData))
                => /\ last'.ret = "success"
                   /\ appState' = "VAULT_UNLOCKED"
                   /\ masterKey' = deriveMasterKey(pin, secureData.masterKeySalt)
                   /\ screen'.route = "/vault/"]_vars

C21_Witness ==
    /\ last.op = "UnlockScreen.handlePinComplete" /\ last.ret = "success"
    /\ screen.attempts >= 5
    /\ appState = "VAULT_UNLOCKED" /\ masterKey # Null
    /\ screen.route = "/vault/"

\* C22: the biometric handler of the unlock screen, whatever the result of
\* the authentication, leaves appState and masterKey as they were, the
\* vault locked and no key held; the unlock screen leaves VAULT_LOCKED for
\* an unlocked state only by a submitted PIN that verifies.
C22_BiometricKeepsVaultLocked ==
    [][ /\ last'.op = "handleBiometric"
           => /\ appState' = appState
              /\ masterKey' = masterKey
              /\ appState' = "VAULT_LOCKED"
              /\ masterKey' = Null
        /\ (appState = "VAULT_LOCKED" /\ appState' \in UnlockedStates)
           => /\ last'.op = "UnlockScreen.handlePinComplete"
              /\ \/ MatchesPrimary(last'.arg, secureData)
                 \/ MatchesDuress(last'.arg, secureData) ]_vars

C22_Witness ==
    /\ last.op = "handleBiometric" /\ last.ret = "true"
    /\ secureData # Null /\ secureData.biometricEnabled
    /\ appState = "VAULT_LOCKED" /\ masterKey = Null

\* C23: along every path through the PIN setup screen, setupPins is called
\* only with a primary PIN typed twice in a row and a duress PIN typed twice
\* in a row after it, the two PINs being different, so that the commitments
\* of the record it loads are those of two different PINs.
C23_SetupPinsDifferAndConfirmed ==
    [][last'.op = "setupPins"
       => LET typed == screen'.typed
              n == Len(typed)
              primaryPin == last'.arg.primaryPin
              duressPin == last'.arg.duressPin
          IN /\ primaryPin \in Pins /\ duressPin \in Pins
             /\ primaryPin # duressPin
             /\ n >= 4
             /\ typed[n] = duressPin /\ typed[n - 1] = duressPin
             /\ \E i \in 1..(n - 3) :
                   typed[i] = primaryPin /\ typed[i + 1] = primaryPin
             /\ last'.ret = "true"
                => /\ MatchesPrimary(primaryPin, secureData')
                   /\ MatchesDuress(duressPin, secureData')
                   /\ \A pin \in Pins :
                         ~(MatchesPrimary(pin, secureData')
                           /\ MatchesDuress(pin, secureData'))]_vars

C23_Witness ==
    /\ last.op = "setupPins" /\ last.ret = "true"
    /\ screen.route = "/setup/biometric"
    /\ Len(screen.typed) = 5
    /\ screen.typed[3] = last.arg.primaryPin
    /\ MatchesPrimary(last.arg.primaryPin, secureData)
    /\ MatchesDuress(last.arg.duressPin, secureData)

\* C26: decryptDocument opens the wrapped FEK first; when that fails, as it
\* does under another master key or for a wrapped FEK whose bytes or tag
\* were altered, it returns null without calling decryptAES256 on the body,
\* and downloadDocument reports a failure with no data.
C26_UnwrapsFEKFirst ==
    (env # Null /\ env.pc = "opened")
    => LET fek == decryptAES256(env.sealed.encryptedFEK, env.key,
                                env.sealed.fekIV)
       IN /\ env.calls[1] = "encryptedFEK"
          /\ env.key # env.masterKey => fek = Null
          /\ (env.part = "encryptedFEK" /\ env.altered \in {"ciphertext", "tag"})
             => fek = Null
          /\ fek = Null
             => /\ env.out = Null
                /\ env.calls = <<"encryptedFEK">>
                /\ env.report.result = "failure"
                /\ env.report.data = Null

C26_Witness ==
    /\ env # Null /\ env.pc = "opened"
    /\ env.key # env.masterKey
    /\ env.altered = "none"
    /\ env.calls = <<"encryptedFEK">>
    /\ env.out = Null
    /\ env.report = [result |-> "failure", data |-> Null]

\* C25: for the persisted Credential Record, every master key held is the
\* key derived from the primary PIN and masterKeySalt, the same in every
\* session; and whenever downloadDocument has called decryptDocument, in the
\* session of the upload or in a later one after lock and unlock or
\* sign-out and sign-in, decryptDocument returned the uploaded content,
\* which downloadDocument delivers when it is not empty.
C25_KeyRederivedDeterministically ==
    /\ masterKey # Null
       => /\ storedSecure # Null
          /\ \E pin \in Pins :
                /\ MatchesPrimary(pin, storedSecure)
                /\ masterKey = deriveMasterKey(pin, storedSecure.masterKeySalt)
    /\ (down # Null /\ down.decryptCalled)
       => /\ down.decrypted = Content(down.doc.id)
          /\ Content(down.doc.id) # [text |-> ""]
             => /\ down.result = "success"
                /\ down.data = Content(down.doc.id)

C25_Witness ==
    /\ down # Null /\ down.pc = "done"
    /\ down.afterUnlock
    /\ down.masterKey = up.enc.encryptedFEK.encryptedBase64.bytes.key
    /\ down.result = "success"
    /\ down.data = Content(down.doc.id)
\* the operation of a call applied to a collection record
Applied(call, meta) ==
    IF call.op = "addDocument"
    THEN AddedMetadata(meta, call.state, call.arg)
    ELSE RemovedMetadata(meta, call.state, call.arg)

RECURSIVE AppliedInOrder(_, _, _)
\* the calls applied one after the other in the order p, from its k-th on
AppliedInOrder(meta, p, k) ==
    IF k > Len(calls) THEN meta
    ELSE AppliedInOrder(Applied(calls[p[k]], meta), p, k + 1)

CallOrders ==
    {p \in [1..Len(calls) -> 1..Len(calls)] :
        \A a, b \in 1..Len(calls) : p[a] = p[b] => a = b}

\* C29: when the addDocument and removeDocument calls that were in flight
\* have all returned, the in-memory collections are what the calls give when
\* applied one after the other, in some order, to the collections the first
\* call found, and so are the persisted collections when no write has thrown.
C29_NoLostUpdate ==
    ( /\ calls # <<>>
      /\ \A i \in 1..Len(calls) : calls[i].pc = "done" )
    => \E p \in CallOrders :
          LET serial == AppliedInOrder(calls[1].seen, p, 1)
          IN /\ vaultMetadata = serial
             /\ faults = 0 => storedMeta = serial

\* C31: a setupPins call that returned true has persisted the Credential
\* Record it put in the store, and a setupPins call whose secure-storage
\* write failed returned false and left the in-memory secureData as it was.
C31_SetupPinsTrueOnlyIfPersisted ==
    [][last'.op = "setupPins" /\ <<rng, faults>>' # <<rng, faults>>
       => /\ last'.ret = "true" => storedSecure' = secureData'
          /\ storedSecure' # secureData'
             => /\ last'.ret = "false"
                /\ secureData' = secureData]_vars

\* C32: when dataIV or fekIV was replaced while the sealed body, the wrapped
\* FEK and their tags stayed as encryptDocument made them, decryptDocument
\* returns null: never a plaintext, and so never one that differs from the
\* original.
C32_IVsCoveredByIntegrityCheck ==
    ( /\ env # Null /\ env.pc = "opened"
      /\ env.altered = "iv" )
    => env.out = Null

\* C34: for every document that encryptDocument sealed, the empty one
\* included, downloadDocument handed the unaltered payload and record under
\* the same master key reports success with the original content.
C34_SuccessForEveryDocument ==
    ( /\ env # Null /\ env.pc = "opened"
      /\ env.altered = "none"
      /\ env.key = env.masterKey )
    => /\ env.report.result = "success"
       /\ env.report.data = env.document

\* C33: on a device whose first user has signed out, the session of any
\* other user holds neither the first user's Credential Record nor the first
\* user's Document Records, and the first user's persisted Credential Record
\* and collections stay as that user left them.
C33_RecordsBelongToSignedInUser ==
    /\ user # Null
       => /\ secureData # Null
             => secureData.pinHash # FirstUserSecure.pinHash
          /\ ~Contains(Documents(vaultMetadata), FirstUserDocument)
    /\ storedSecure = FirstUserSecure
    /\ storedMeta = FirstUserMetadata

====
